---- MODULE Spec2Model ----
(***************************************************************************)
(* Model of Service::Nvidia::Devices::nvhost_nvdec_common                  *)
(* (src/core/hle/service/nvdrv/devices/nvhost_nvdec_common.cpp): the ioctl *)
(* handlers of the NVDEC/VIC host device, the buffer address map they keep *)
(* and the calls they forward to the GPU memory manager.                   *)
(*                                                                         *)
(* Buffers are sequences of 32-bit words (every record of the protocol is  *)
(* a whole number of u32 fields).  Device addresses are 1..MaxAddr, 0 is   *)
(* "unmapped".                                                             *)
(***************************************************************************)
EXTENDS Integers, Sequences, FiniteSets, TLC

(***************************************************************************)
(* Bounds of the model                                                     *)
(***************************************************************************)
NumObjects == 2
MaxEntries == 2
MaxCmds == 2
\* the device address space: one word an object and one more
MaxAddr == NumObjects + 1

(***************************************************************************)
(* Status codes (namespace NvErrCodes).  The code stores them as u32, the  *)
(* values below are their signed reading.                                  *)
(***************************************************************************)
Success == 0
OutOfMemory == -12
InvalidInput == -22

(***************************************************************************)
(* Record sizes in u32 words                                               *)
(***************************************************************************)
SizeofIoctlSubmit == 4
SizeofCommandBuffer == 3
SizeofReloc == 4
SizeofRelocShift == 1
SizeofSyncptIncr == 2
SizeofFence == 2
SizeofIoctlMapBuffer == 1
SizeofMapBufferEntry == 2
SizeofIoctlGetSyncpoint == 2

(***************************************************************************)
(* Values that stand for memory the handlers do not own                    *)
(***************************************************************************)
\* what a read past the end of a buffer or of a local can yield
GarbageWords == {0, 1}

Min(S) == CHOOSE x \in S : \A y \in S : x <= y

Range(f) == {f[i] : i \in DOMAIN f}

RECURSIVE Flatten(_)
Flatten(ss) == IF ss = <<>> THEN <<>> ELSE Head(ss) \o Flatten(Tail(ss))

(***************************************************************************)
(* nvmap: the memory object registry.  Objects 1..NumObjects exist, every  *)
(* other handle does not resolve.  Size, address and status of an object   *)
(* are fixed; dma_map_addr is the field the handlers write.                *)
(***************************************************************************)
Handles == 1..NumObjects
BadHandle == NumObjects + 1
GetObject(h) == h \in Handles
ObjSize(h) == 1 + (h % 2)
ObjAddr(h) == 16 * h
ObjAllocated(h) == (h % 2) = 1

(***************************************************************************)
(* GPU memory manager                                                      *)
(***************************************************************************)
\* addresses MapAllocate32 may return: 0 (nothing mapped) or the start of a
\* free range of the 32-bit space
MapAllocate32(gpu, size) ==
    {0} \cup {b \in 1..MaxAddr :
                 /\ b + size - 1 <= MaxAddr
                 /\ (b..(b + size - 1)) \cap gpu = {}}
Unmap(gpu, addr, size) == gpu \ (addr..(addr + size - 1))
\* the word stored at a device address
MemWord(a) == 100 + a
ReadBlock(addr, n) == [j \in 1..n |-> MemWord(addr + j - 1)]

Call(i, fn, a, b, ws) == [idx |-> i, fn |-> fn, a |-> a, b |-> b, words |-> ws]

(***************************************************************************)
(* BufferMap and the std::map buffer_mappings (a function from its keys)   *)
(***************************************************************************)
BufferMap(start, size, cpu, alloc) ==
    [start_addr |-> start, size |-> size, cpu_addr |-> cpu, is_allocated |-> alloc]
StartAddr(bm) == bm.start_addr
EndAddr(bm) == bm.start_addr + bm.size
EmptyMap == [k \in {} |-> BufferMap(0, 0, 0, FALSE)]

\* what dereferencing buffer_mappings.end() can read
GarbageMaps == {BufferMap(0, 0, 0, FALSE), BufferMap(MaxAddr, 1, 0, TRUE)}

\* std::map::upper_bound: the first key strictly greater than gpu_addr
UpperBound(m, gpu_addr) ==
    LET gt == {k \in DOMAIN m : k > gpu_addr}
    IN IF gt = {} THEN [at_end |-> TRUE, key |-> 0]
       ELSE [at_end |-> FALSE, key |-> Min(gt)]

\* a slip: the lower end of the range left out
Contains_OpenStart(bm, gpu_addr) == gpu_addr > StartAddr(bm) /\ gpu_addr < EndAddr(bm)

\* the lambda of FindBufferMap
Contains(bm, gpu_addr) == gpu_addr >= StartAddr(bm) /\ gpu_addr < EndAddr(bm)

\* std::find_if(begin, upper_bound(gpu_addr), pred): the first entry in key
\* order that satisfies pred, else the iterator "last" it was given
FindIf(m, gpu_addr) ==
    LET hit == {k \in DOMAIN m : k <= gpu_addr /\ Contains(m[k], gpu_addr)}
    IN IF hit = {} THEN UpperBound(m, gpu_addr)
       ELSE [at_end |-> FALSE, key |-> Min(hit)]

\* FindBufferMap: the outcomes of one call.  kind is "value" (an engaged
\* optional), "none" (std::nullopt) or "crash" (the ASSERT stopped the
\* process).  When find_if returns end() the ASSERT fails and it->second reads
\* the end iterator.
FindBufferMap(m, gpu_addr) ==
    LET it == FindIf(m, gpu_addr)
    IN IF it.at_end
       THEN {[kind |-> "crash", map |-> BufferMap(0, 0, 0, FALSE)]}
            \cup {[kind |-> "value", map |-> g] : g \in GarbageMaps}
       ELSE {[kind |-> "value", map |-> m[it.key]]}

\* insert_or_assign
AddBufferMap(m, gpu_addr, size, cpu_addr, is_allocated) ==
    [k \in (DOMAIN m) \cup {gpu_addr} |->
        IF k = gpu_addr THEN BufferMap(gpu_addr, size, cpu_addr, is_allocated)
        ELSE m[k]]

\* a slip: a present 0 instead of std::nullopt when the key is missing
RemoveBufferMap_NeverNullopt(m, gpu_addr) ==
    IF gpu_addr \notin DOMAIN m
    THEN [has |-> TRUE, size |-> 0, map |-> m]
    ELSE [has |-> TRUE,
          size |-> IF m[gpu_addr].is_allocated THEN m[gpu_addr].size ELSE 0,
          map |-> [k \in (DOMAIN m) \ {gpu_addr} |-> m[k]]]

\* a slip: the size returned without the test of IsAllocated
RemoveBufferMap_IgnoresAllocated(m, gpu_addr) ==
    IF gpu_addr \notin DOMAIN m
    THEN [has |-> FALSE, size |-> 0, map |-> m]
    ELSE [has |-> TRUE,
          size |-> m[gpu_addr].size,
          map |-> [k \in (DOMAIN m) \ {gpu_addr} |-> m[k]]]

\* a slip: the entry is looked up but not erased
RemoveBufferMap_NoErase(m, gpu_addr) ==
    IF gpu_addr \notin DOMAIN m
    THEN [has |-> FALSE, size |-> 0, map |-> m]
    ELSE [has |-> TRUE,
          size |-> IF m[gpu_addr].is_allocated THEN m[gpu_addr].size ELSE 0,
          map |-> m]

\* RemoveBufferMap: the optional it returns and the map it leaves
RemoveBufferMap(m, gpu_addr) ==
    IF gpu_addr \notin DOMAIN m
    THEN [has |-> FALSE, size |-> 0, map |-> m]
    ELSE [has |-> TRUE,
          size |-> IF m[gpu_addr].is_allocated THEN m[gpu_addr].size ELSE 0,
          map |-> [k \in (DOMAIN m) \ {gpu_addr} |-> m[k]]]

(***************************************************************************)
(* Binary codec                                                            *)
(***************************************************************************)
\* the word at position i of a buffer; a read past its end yields g
Word(input, i, g) == IF i <= Len(input) THEN input[i] ELSE g

\* std::memcpy(&params, input.data(), sizeof(params))
DecodeParams(input, size, g) == [j \in 1..size |-> Word(input, j, g)]

\* SpliceVectors: count elements of size words each, read at offset
SpliceVectors(input, count, size, offset, g) ==
    [k \in 1..count |->
        [j \in 1..size |-> Word(input, offset + (k - 1) * size + j, g)]]

\* WriteVectors / memcpy into the output: src (already flat) lands at offset
WriteVectors(dst, src, offset) ==
    [i \in 1..Len(dst) |->
        IF i > offset /\ i <= offset + Len(src) THEN src[i - offset] ELSE dst[i]]

\* the output buffer the caller hands in: len words of its own
FreshOutput(len) == [i \in 1..len |-> 85]

(***************************************************************************)
(* State                                                                   *)
(***************************************************************************)
VARIABLES
    sessions,         \* the device sessions that exist (nvdec, vic)
    dma_map_addr,     \* nvmap: object handle -> Object::dma_map_addr
    buffer_mappings,  \* session -> its std::map<GPUVAddr, BufferMap>
    nvmap_fd,         \* session -> nvmap_fd
    submit_timeout,   \* session -> submit_timeout
    gpu,              \* device addresses mapped in the GPU address space
    alive,            \* FALSE once an ASSERT has stopped the process
    last              \* the last ioctl: its input, result and GPU calls

vars == <<sessions, dma_map_addr, buffer_mappings, nvmap_fd, submit_timeout,
          gpu, alive, last>>

NoCall ==
    [op |-> "none", s |-> 0, input |-> <<>>, returned |-> TRUE,
     status |-> Success, output |-> <<>>, calls |-> <<>>, done |-> 0,
     past_end |-> FALSE, pre_dma |-> [h \in Handles |-> 0],
     pre_map |-> EmptyMap]

InitWith(ss) ==
    /\ sessions = ss
    /\ dma_map_addr = [h \in Handles |-> 0]
    /\ buffer_mappings = [s \in ss |-> EmptyMap]
    /\ nvmap_fd = [s \in ss |-> 0]
    /\ submit_timeout = [s \in ss |-> 0]
    /\ gpu = {}
    /\ alive = TRUE
    /\ last = NoCall

Init == InitWith({1})

\* the record an ioctl leaves in last
Result(op, s, input, st, output, past) ==
    [op |-> op, s |-> s, input |-> input, returned |-> st.returned,
     status |-> st.status, output |-> output, calls |-> st.calls,
     done |-> st.done, past_end |-> past, pre_dma |-> dma_map_addr,
     pre_map |-> buffer_mappings[s]]

\* the locals of a handler at loop entry
Locals(s, elems) ==
    [dma |-> dma_map_addr, map |-> buffer_mappings[s], gpu |-> gpu,
     elems |-> elems, calls |-> <<>>, done |-> 0, returned |-> TRUE,
     stop |-> FALSE, status |-> Success]

(***************************************************************************)
(* MapBuffer                                                               *)
(***************************************************************************)
\* a slip: a failed allocation reported as OutOfMemory
MapBufferStep_OutOfMemory(st, i, alloc, low_addr) ==
    LET h == st.elems[i][1]
        addr == IF alloc THEN low_addr ELSE st.dma[h]
    IN [st EXCEPT
          !.dma[h] = addr,
          !.gpu = IF alloc /\ low_addr # 0
                  THEN @ \cup (low_addr..(low_addr + ObjSize(h) - 1)) ELSE @,
          !.calls = IF alloc
                    THEN Append(@, Call(i, "allocate_32bit", low_addr, ObjSize(h), <<>>))
                    ELSE @,
          !.elems[i] = IF addr = 0 THEN @ ELSE <<h, addr>>,
          !.map = IF addr = 0 THEN @
                  ELSE AddBufferMap(@, addr, ObjSize(h), ObjAddr(h), ObjAllocated(h)),
          !.status = IF addr = 0 THEN OutOfMemory ELSE @,
          !.done = i]

\* one iteration of the loop for a handle that resolves, when MapAllocate32
\* is called iff alloc and returns low_addr
MapBufferStep(st, i, alloc, low_addr) ==
    LET h == st.elems[i][1]
        addr == IF alloc THEN low_addr ELSE st.dma[h]
    IN [st EXCEPT
          !.dma[h] = addr,
          !.gpu = IF alloc /\ low_addr # 0
                  THEN @ \cup (low_addr..(low_addr + ObjSize(h) - 1)) ELSE @,
          !.calls = IF alloc
                    THEN Append(@, Call(i, "allocate_32bit", low_addr, ObjSize(h), <<>>))
                    ELSE @,
          !.elems[i] = IF addr = 0 THEN @ ELSE <<h, addr>>,
          !.map = IF addr = 0 THEN @
                  ELSE AddBufferMap(@, addr, ObjSize(h), ObjAddr(h), ObjAllocated(h)),
          !.done = i]

\* a slip: the loop body without the test of dma_map_addr == 0
MapBufferEntry_AlwaysAllocates(st, i) ==
    LET h == st.elems[i][1]
    IN {MapBufferStep(st, i, TRUE, low) : low \in MapAllocate32(st.gpu, ObjSize(h))}

\* one iteration of the loop for a handle that resolves: the set of ways it
\* ends, one for each address MapAllocate32 can return
MapBufferEntry(st, i) ==
    LET h == st.elems[i][1]
    IN IF st.dma[h] = 0
       THEN {MapBufferStep(st, i, TRUE, low) : low \in MapAllocate32(st.gpu, ObjSize(h))}
       ELSE {MapBufferStep(st, i, FALSE, 0)}

\* a slip: the loop is left when an allocation fails
RECURSIVE MapBufferLoop_StopsOnFailure(_, _)
MapBufferLoop_StopsOnFailure(st, i) ==
    IF i > Len(st.elems) THEN {st}
    ELSE IF ~GetObject(st.elems[i][1])
    THEN {[st EXCEPT !.status = InvalidInput, !.stop = TRUE]}
    ELSE UNION {IF st2.dma[st.elems[i][1]] = 0 THEN {st2}
                ELSE MapBufferLoop_StopsOnFailure(st2, i + 1)
                : st2 \in MapBufferEntry(st, i)}

\* the loop over cmd_buffer_handles from entry i on: the set of ways it ends
RECURSIVE MapBufferLoop(_, _)
MapBufferLoop(st, i) ==
    IF i > Len(st.elems) THEN {st}
    ELSE IF ~GetObject(st.elems[i][1])
    THEN {[st EXCEPT !.status = InvalidInput, !.stop = TRUE]}
    ELSE UNION {MapBufferLoop(st2, i + 1) : st2 \in MapBufferEntry(st, i)}

\* the output buffer MapBuffer leaves
MapBufferOutput(output, params, st, g) ==
    IF st.stop
    THEN [k \in 1..Len(output) |-> IF k <= SizeofIoctlMapBuffer THEN params[k] ELSE g]
    ELSE WriteVectors(WriteVectors(output, params, 0), Flatten(st.elems),
                      SizeofIoctlMapBuffer)

\* inputs of the map and unmap ioctls: a header and n entries
MapBufferInputs ==
    UNION {{<<n>> \o Flatten([k \in 1..n |-> <<hs[k], v>>]) :
               hs \in [1..n -> Handles \cup {BadHandle}], v \in {MaxAddr + 1}}
           : n \in 0..MaxEntries}

MapBuffer ==
  \E s \in sessions :
    /\ alive /\ last.op = "none"
    /\ \E input \in MapBufferInputs :
       \E g \in GarbageWords :
         LET params == DecodeParams(input, SizeofIoctlMapBuffer, g)
             elems == SpliceVectors(input, params[1], SizeofMapBufferEntry,
                                    SizeofIoctlMapBuffer, g)
         IN \E st \in MapBufferLoop(Locals(s, elems), 1) :
              /\ (st.stop /\ Len(input) > SizeofIoctlMapBuffer) \/ g = 0
              /\ dma_map_addr' = st.dma
              /\ buffer_mappings' = [buffer_mappings EXCEPT ![s] = st.map]
              /\ gpu' = st.gpu
              /\ last' = Result("MapBuffer", s, input, st,
                                MapBufferOutput(FreshOutput(Len(input)), params, st, g),
                                FALSE)
              /\ UNCHANGED <<sessions, nvmap_fd, submit_timeout, alive>>

(***************************************************************************)
(* UnmapBuffer                                                             *)
(***************************************************************************)
\* a slip: dma_map_addr not reset
UnmapBufferEntry_KeepsAddress(st, i) ==
    LET h == st.elems[i][1]
        size == RemoveBufferMap(st.map, st.dma[h])
    IN [st EXCEPT
          !.map = size.map,
          !.gpu = IF size.has THEN Unmap(@, st.dma[h], size.size) ELSE @,
          !.calls = IF size.has
                    THEN Append(@, Call(i, "unmap", st.dma[h], size.size, <<>>))
                    ELSE @,
          !.done = i]

\* a slip: the address is reset without RemoveBufferMap and Unmap
UnmapBufferEntry_SkipsRemove(st, i) ==
    LET h == st.elems[i][1]
    IN [st EXCEPT !.dma[h] = 0, !.done = i]

\* one iteration of the loop for a handle that resolves
UnmapBufferEntry(st, i) ==
    LET h == st.elems[i][1]
        size == RemoveBufferMap(st.map, st.dma[h])
    IN [st EXCEPT
          !.map = size.map,
          !.gpu = IF size.has THEN Unmap(@, st.dma[h], size.size) ELSE @,
          !.calls = IF size.has
                    THEN Append(@, Call(i, "unmap", st.dma[h], size.size, <<>>))
                    ELSE @,
          !.dma[h] = 0,
          !.done = i]

\* a slip: the loop goes on after a handle that does not resolve
RECURSIVE UnmapBufferLoop_GoesOn(_, _)
UnmapBufferLoop_GoesOn(st, i) ==
    IF i > Len(st.elems) THEN st
    ELSE IF ~GetObject(st.elems[i][1])
    THEN UnmapBufferLoop_GoesOn([st EXCEPT !.status = InvalidInput, !.stop = TRUE], i + 1)
    ELSE UnmapBufferLoop_GoesOn(UnmapBufferEntry(st, i), i + 1)

\* the loop over cmd_buffer_handles from entry i on
RECURSIVE UnmapBufferLoop(_, _)
UnmapBufferLoop(st, i) ==
    IF i > Len(st.elems) THEN st
    ELSE IF ~GetObject(st.elems[i][1])
    THEN [st EXCEPT !.status = InvalidInput, !.stop = TRUE]
    ELSE UnmapBufferLoop(UnmapBufferEntry(st, i), i + 1)

\* the output buffer UnmapBuffer leaves
UnmapBufferOutput(output, params, st, g) ==
    IF st.stop
    THEN [k \in 1..Len(output) |-> IF k <= SizeofIoctlMapBuffer THEN params[k] ELSE g]
    ELSE [k \in 1..Len(output) |-> 0]

UnmapBuffer ==
  \E s \in sessions :
    /\ alive /\ last.op = "none"
    /\ \E input \in MapBufferInputs :
       \E g \in GarbageWords :
         LET params == DecodeParams(input, SizeofIoctlMapBuffer, g)
             elems == SpliceVectors(input, params[1], SizeofMapBufferEntry,
                                    SizeofIoctlMapBuffer, g)
             st == UnmapBufferLoop(Locals(s, elems), 1)
         IN /\ (st.stop /\ Len(input) > SizeofIoctlMapBuffer) \/ g = 0
            /\ dma_map_addr' = st.dma
            /\ buffer_mappings' = [buffer_mappings EXCEPT ![s] = st.map]
            /\ gpu' = st.gpu
            /\ last' = Result("UnmapBuffer", s, input, st,
                              UnmapBufferOutput(FreshOutput(Len(input)), params, st, g),
                              FALSE)
            /\ UNCHANGED <<sessions, nvmap_fd, submit_timeout, alive>>

(***************************************************************************)
(* Submit                                                                  *)
(***************************************************************************)
\* a slip: the block is read at the start of the mapping, the offset dropped
SubmitEntry_DropsOffset(st, i) ==
    LET object == st.elems[i][1]
        word_count == st.elems[i][3]
        step(map) ==
            IF map.kind = "crash"
            THEN [st EXCEPT !.returned = FALSE, !.stop = TRUE]
            ELSE IF map.kind = "none"
            THEN [st EXCEPT !.status = 0, !.stop = TRUE]
            ELSE LET addr == StartAddr(map.map)
                     cmdlist == ReadBlock(addr, word_count)
                 IN [st EXCEPT
                       !.calls = @ \o <<Call(i, "read_block", addr, word_count, <<>>),
                                        Call(i, "push_command_list", addr, word_count,
                                             cmdlist)>>,
                       !.done = i]
    IN {step(map) : map \in FindBufferMap(st.map, st.dma[object])}

\* one iteration of the loop for a handle that resolves: the set of ways it
\* ends, one for each outcome of FindBufferMap
SubmitEntry(st, i) ==
    LET object == st.elems[i][1]
        offset == st.elems[i][2]
        word_count == st.elems[i][3]
        step(map) ==
            IF map.kind = "crash"
            THEN [st EXCEPT !.returned = FALSE, !.stop = TRUE]
            ELSE IF map.kind = "none"
            THEN [st EXCEPT !.status = 0, !.stop = TRUE]
            ELSE LET addr == StartAddr(map.map) + offset
                     cmdlist == ReadBlock(addr, word_count)
                 IN [st EXCEPT
                       !.calls = @ \o <<Call(i, "read_block", addr, word_count, <<>>),
                                        Call(i, "push_command_list", addr, word_count,
                                             cmdlist)>>,
                       !.done = i]
    IN {step(map) : map \in FindBufferMap(st.map, st.dma[object])}

\* the loop over command_buffers from descriptor i on
RECURSIVE SubmitLoop(_, _)
SubmitLoop(st, i) ==
    IF i > Len(st.elems) THEN {st}
    ELSE IF ~GetObject(st.elems[i][1])
    THEN {[st EXCEPT !.status = InvalidInput, !.stop = TRUE]}
    ELSE UNION {IF st2.stop THEN {st2} ELSE SubmitLoop(st2, i + 1)
                : st2 \in SubmitEntry(st, i)}

\* the five trailing arrays as Submit decodes them, and the offset after each
SubmitArrays(input, params, g) ==
    LET o1 == SizeofIoctlSubmit
        o2 == o1 + params[1] * SizeofCommandBuffer
        o3 == o2 + params[2] * SizeofReloc
        o4 == o3 + params[2] * SizeofRelocShift
        o5 == o4 + params[3] * SizeofSyncptIncr
        o6 == o5 + params[3] * SizeofSyncptIncr
    IN [command_buffers |-> SpliceVectors(input, params[1], SizeofCommandBuffer, o1, g),
        relocs |-> SpliceVectors(input, params[2], SizeofReloc, o2, g),
        reloc_shifts |-> SpliceVectors(input, params[2], SizeofRelocShift, o3, g),
        syncpt_increments |-> SpliceVectors(input, params[3], SizeofSyncptIncr, o4, g),
        wait_checks |-> SpliceVectors(input, params[3], SizeofSyncptIncr, o5, g),
        fences |-> SpliceVectors(input, params[4], SizeofFence, o6, g),
        size |-> o6 + params[4] * SizeofFence]

\* a slip: the fences are written back after the wait checks
SubmitOutput_WritesFences(output, params, arrays, st) ==
    IF st.stop THEN output
    ELSE WriteVectors(WriteVectors(output, params, 0),
                      Flatten(st.elems) \o Flatten(arrays.relocs)
                          \o Flatten(arrays.reloc_shifts)
                          \o Flatten(arrays.syncpt_increments)
                          \o Flatten(arrays.wait_checks) \o Flatten(arrays.fences),
                      SizeofIoctlSubmit)

\* the output buffer Submit leaves
SubmitOutput(output, params, arrays, st) ==
    IF st.stop THEN output
    ELSE LET w0 == WriteVectors(output, params, 0)
             f1 == Flatten(st.elems)
             f2 == Flatten(arrays.relocs)
             f3 == Flatten(arrays.reloc_shifts)
             f4 == Flatten(arrays.syncpt_increments)
             f5 == Flatten(arrays.wait_checks)
             o1 == SizeofIoctlSubmit
             o2 == o1 + Len(f1)
             o3 == o2 + Len(f2)
             o4 == o3 + Len(f3)
             o5 == o4 + Len(f4)
         IN WriteVectors(WriteVectors(WriteVectors(WriteVectors(WriteVectors(
                w0, f1, o1), f2, o2), f3, o3), f4, o4), f5, o5)

\* the descriptors a guest submits: a handle with an offset and a word count
CommandBuffers == {<<h, h - 1, h>> : h \in Handles \cup {BadHandle}}

\* a well-formed submit input: n descriptors and c elements in every other array
SubmitInput(cmds, c) ==
    <<Len(cmds), c, c, c>> \o Flatten(cmds)
        \o Flatten([k \in 1..c |-> <<41, 42, 43, 44>>])
        \o Flatten([k \in 1..c |-> <<45>>])
        \o Flatten([k \in 1..c |-> <<46, 47>>])
        \o Flatten([k \in 1..c |-> <<48, 49>>])
        \o Flatten([k \in 1..c |-> <<50, 51>>])

\* the inputs tried: well-formed ones (other arrays empty, or of one element
\* beside at most one descriptor), and ones that end after the header
SubmitInputs ==
    UNION {{SubmitInput(cmds, 0) : cmds \in [1..n -> CommandBuffers]} : n \in 0..MaxCmds}
    \cup UNION {{SubmitInput(cmds, 1) : cmds \in [1..n -> CommandBuffers]} : n \in 0..1}
    \cup {<<n, 0, 0, 0>> : n \in 1..MaxCmds}

Submit ==
  \E s \in sessions :
    /\ alive /\ last.op = "none"
    /\ \E input \in SubmitInputs :
       \E g \in GarbageWords :
         LET params == DecodeParams(input, SizeofIoctlSubmit, g)
             arrays == SubmitArrays(input, params, g)
             past == arrays.size > Len(input)
         IN \E st \in SubmitLoop(Locals(s, arrays.command_buffers), 1) :
              /\ past \/ g = 0
              /\ alive' = st.returned
              /\ last' = Result("Submit", s, input, st,
                                SubmitOutput(FreshOutput(arrays.size), params, arrays, st),
                                past)
              /\ UNCHANGED <<sessions, dma_map_addr, buffer_mappings, nvmap_fd,
                             submit_timeout, gpu>>

(***************************************************************************)
(* The stubs                                                               *)
(***************************************************************************)
Stub(op, s, input, output) ==
    Result(op, s, input, Locals(s, <<>>), output, FALSE)

SetNVMAPfd ==
  \E s \in sessions :
    /\ alive /\ last.op = "none"
    /\ \E fd \in {7} :
         LET params == DecodeParams(<<fd>>, 1, 0)
         IN /\ nvmap_fd' = [nvmap_fd EXCEPT ![s] = params[1]]
            /\ last' = Stub("SetNVMAPfd", s, <<fd>>, <<>>)
    /\ UNCHANGED <<sessions, dma_map_addr, buffer_mappings, submit_timeout, gpu, alive>>

\* a slip: GetSyncpoint without the line params.value = 0
GetSyncpoint_KeepsValue ==
  \E s \in sessions :
    /\ alive /\ last.op = "none"
    /\ \E input \in {<<0, 0>>, <<3, 9>>} :
         LET params == DecodeParams(input, SizeofIoctlGetSyncpoint, 0)
         IN last' = Stub("GetSyncpoint", s, input,
                         WriteVectors(FreshOutput(Len(input)), params, 0))
    /\ UNCHANGED <<sessions, dma_map_addr, buffer_mappings, nvmap_fd, submit_timeout,
                   gpu, alive>>

GetSyncpoint ==
  \E s \in sessions :
    /\ alive /\ last.op = "none"
    /\ \E input \in {<<0, 0>>, <<3, 9>>} :
         LET params == DecodeParams(input, SizeofIoctlGetSyncpoint, 0)
             out == [params EXCEPT ![2] = 0]
         IN last' = Stub("GetSyncpoint", s, input,
                         WriteVectors(FreshOutput(Len(input)), out, 0))
    /\ UNCHANGED <<sessions, dma_map_addr, buffer_mappings, nvmap_fd, submit_timeout,
                   gpu, alive>>

GetWaitbase ==
  \E s \in sessions :
    /\ alive /\ last.op = "none"
    /\ \E input \in {<<0, 0>>, <<3, 9>>} :
         LET params == DecodeParams(input, SizeofIoctlGetSyncpoint, 0)
             out == [params EXCEPT ![2] = 0]
         IN last' = Stub("GetWaitbase", s, input,
                         WriteVectors(FreshOutput(Len(input)), out, 0))
    /\ UNCHANGED <<sessions, dma_map_addr, buffer_mappings, nvmap_fd, submit_timeout,
                   gpu, alive>>

\* a slip: the input is copied into nvmap_fd instead of submit_timeout
SetSubmitTimeout_WritesFd ==
  \E s \in sessions :
    /\ alive /\ last.op = "none"
    /\ \E input \in {<<5>>} :
         /\ nvmap_fd' = [nvmap_fd EXCEPT ![s] = input[1]]
         /\ last' = Stub("SetSubmitTimeout", s, input, FreshOutput(Len(input)))
    /\ UNCHANGED <<sessions, dma_map_addr, buffer_mappings, submit_timeout, gpu, alive>>

SetSubmitTimeout ==
  \E s \in sessions :
    /\ alive /\ last.op = "none"
    /\ \E input \in {<<5>>} :
         /\ submit_timeout' = [submit_timeout EXCEPT ![s] = input[1]]
         /\ last' = Stub("SetSubmitTimeout", s, input, FreshOutput(Len(input)))
    /\ UNCHANGED <<sessions, dma_map_addr, buffer_mappings, nvmap_fd, gpu, alive>>

\* the ioctl returns: the caller takes the status and the output buffer
IoctlReturn ==
    /\ last.op # "none" /\ last.returned
    /\ last' = NoCall
    /\ UNCHANGED <<sessions, dma_map_addr, buffer_mappings, nvmap_fd, submit_timeout,
                   gpu, alive>>

Next ==
    \/ SetNVMAPfd
    \/ Submit
    \/ GetSyncpoint
    \/ GetWaitbase
    \/ MapBuffer
    \/ UnmapBuffer
    \/ SetSubmitTimeout
    \/ IoctlReturn

Spec == Init /\ [][Next]_vars

\* two device sessions (nvdec and vic) on one nvmap and one GPU, whose
\* map-buffer and unmap-buffer calls interleave
InitShared == InitWith({1, 2})
NextShared == MapBuffer \/ UnmapBuffer \/ IoctlReturn
SpecShared == InitShared /\ [][NextShared]_vars

(***************************************************************************)
(* Reading the last ioctl                                                  *)
(***************************************************************************)
\* the handle of entry i of a map or unmap input
EntryHandle(input, i) ==
    input[SizeofIoctlMapBuffer + (i - 1) * SizeofMapBufferEntry + 1]
\* the map_address word of entry i in a map or unmap buffer
EntryAddress(buffer, i) ==
    buffer[SizeofIoctlMapBuffer + (i - 1) * SizeofMapBufferEntry + 2]
\* the objects named by entries 1..n of the last map or unmap input
Named(n) == {EntryHandle(last.input, i) : i \in 1..n}
\* the GPU calls the last ioctl made while it handled element i
CallsOf(i) == {c \in Range(last.calls) : c.idx = i}
LastMap == buffer_mappings[last.s]
MapCalled == alive /\ last.op = "MapBuffer"
UnmapCalled == alive /\ last.op = "UnmapBuffer"
\* the index of the first entry whose handle does not resolve (0: none)
FirstBadEntry ==
    LET bad == {i \in 1..last.input[1] : ~GetObject(EntryHandle(last.input, i))}
    IN IF bad = {} THEN 0 ELSE Min(bad)
\* m without the keys in ks
Without(m, ks) == [k \in (DOMAIN m) \ ks |-> m[k]]

(***************************************************************************)
(* C1: after a map-buffer call that leaves an object with a non-zero       *)
(* dma_map_addr A and size S, FindBufferMap(a) for every a in [A, A+S)     *)
(* returns the mapping with start A, size S and the object's cpu address,  *)
(* whatever else is in the map.                                            *)
(***************************************************************************)
C1_MapThenFind ==
    MapCalled =>
        \A i \in 1..last.done :
            LET h == EntryHandle(last.input, i)
                A == dma_map_addr[h]
            IN A # 0 =>
                 \A a \in A..(A + ObjSize(h) - 1) :
                    \A r \in FindBufferMap(LastMap, a) :
                        /\ r.kind = "value"
                        /\ StartAddr(r.map) = A
                        /\ r.map.size = ObjSize(h)
                        /\ r.map.cpu_addr = ObjAddr(h)

\* a map call has mapped an object while another mapping with a lower key
\* is in the map
C1_Witness ==
    /\ MapCalled
    /\ \E i \in 1..last.done :
         LET A == dma_map_addr[EntryHandle(last.input, i)]
         IN A # 0 /\ \E k \in DOMAIN LastMap : k < A

(***************************************************************************)
(* C2: FindBufferMap(address) returns "not found", with no assertion       *)
(* failure and no other mapping, whenever no entry's range contains        *)
(* address.                                                                *)
(***************************************************************************)
C2_FindNotFound ==
    \A s \in sessions : \A a \in 0..(MaxAddr + 1) :
        (\A k \in DOMAIN buffer_mappings[s] : ~Contains(buffer_mappings[s][k], a))
            => \A r \in FindBufferMap(buffer_mappings[s], a) : r.kind = "none"

(***************************************************************************)
(* C4: map-buffer on an object whose dma_map_addr is already non-zero      *)
(* makes no allocate_32bit call for it, leaves dma_map_addr unchanged and  *)
(* reports that address in the entry.                                      *)
(***************************************************************************)
\* the dma_map_addr of the object of entry i when the loop reaches entry i
AddressBefore(i) ==
    LET h == EntryHandle(last.input, i)
        earlier == {c \in Range(last.calls) :
                       /\ c.fn = "allocate_32bit" /\ c.idx < i
                       /\ EntryHandle(last.input, c.idx) = h /\ c.a # 0}
    IN IF last.pre_dma[h] # 0 THEN last.pre_dma[h]
       ELSE IF earlier = {} THEN 0
       ELSE (CHOOSE c \in earlier : TRUE).a

C4_MapTwiceReuses ==
    MapCalled =>
        \A i \in 1..last.done :
            LET h == EntryHandle(last.input, i)
            IN AddressBefore(i) # 0 =>
                 /\ CallsOf(i) = {}
                 /\ dma_map_addr[h] = AddressBefore(i)
                 /\ last.status = Success
                        => EntryAddress(last.output, i) = AddressBefore(i)

\* a successful map call has named an object that an earlier call mapped
C4_Witness ==
    /\ MapCalled /\ last.status = Success
    /\ \E i \in 1..last.done : last.pre_dma[EntryHandle(last.input, i)] # 0

(***************************************************************************)
(* C5: unmap-buffer on a handle whose object has dma_map_addr = 0 forwards *)
(* no unmap call, leaves the map unchanged, leaves dma_map_addr at 0 and   *)
(* returns 0.                                                              *)
(***************************************************************************)
C5_UnmapUnmappedNoop ==
    UnmapCalled =>
        /\ \A i \in 1..last.done :
              LET h == EntryHandle(last.input, i)
              IN (last.pre_dma[h] = 0 \/ h \in Named(i - 1)) =>
                    CallsOf(i) = {} /\ dma_map_addr[h] = 0
        \* only the entries of objects that had an address take keys away
        /\ LastMap = Without(last.pre_map,
                             {last.pre_dma[h] : h \in {g \in Named(last.done) :
                                                         last.pre_dma[g] # 0}})
        /\ (/\ FirstBadEntry = 0
            /\ \A h \in Named(last.done) : last.pre_dma[h] = 0)
              => /\ last.status = Success
                 /\ last.calls = <<>>
                 /\ LastMap = last.pre_map
                 /\ dma_map_addr = last.pre_dma

\* an unmap call has named a never-mapped object while the map holds others
C5_Witness ==
    /\ UnmapCalled /\ last.status = Success /\ last.done > 0
    /\ \A h \in Named(last.done) : last.pre_dma[h] = 0
    /\ DOMAIN last.pre_map # {}

(***************************************************************************)
(* C6: AddBufferMap(address, size, cpu_address, is_allocated) then         *)
(* RemoveBufferMap(address) deletes the entry and returns size when        *)
(* is_allocated, 0 (a present result) when not; RemoveBufferMap of an      *)
(* address that is no key returns "not found" and changes nothing.         *)
(***************************************************************************)
C6_AddThenRemove ==
    \A s \in sessions :
        LET m == buffer_mappings[s]
        IN /\ \A a \in 0..MaxAddr, size \in {0, 2}, cpu \in {16}, f \in BOOLEAN :
                 LET r == RemoveBufferMap(AddBufferMap(m, a, size, cpu, f), a)
                 IN /\ r.has
                    /\ r.size = (IF f THEN size ELSE 0)
                    /\ a \notin DOMAIN r.map
                    /\ r.map = Without(m, {a})
           /\ \A a \in (0..MaxAddr) \ DOMAIN m :
                 LET r == RemoveBufferMap(m, a)
                 IN ~r.has /\ r.map = m

\* an unmap call has removed the entry of a mapped object that is not
\* allocated (RemoveBufferMap returned a present 0) next to another entry
C6_Witness ==
    /\ UnmapCalled
    /\ \E c \in Range(last.calls) :
         /\ c.fn = "unmap" /\ c.b = 0
         /\ c.a \in DOMAIN last.pre_map /\ c.a \notin DOMAIN LastMap
    /\ DOMAIN LastMap # {}

(***************************************************************************)
(* C7: after an unmap-buffer call that returns 0 every object it names has *)
(* dma_map_addr = 0, the map has no entry keyed by the address the object  *)
(* had before the call, and the output is all zero.                        *)
(***************************************************************************)
C7_UnmapResets ==
    (UnmapCalled /\ last.returned /\ last.status = Success) =>
        /\ \A h \in Named(last.input[1]) :
              dma_map_addr[h] = 0 /\ last.pre_dma[h] \notin DOMAIN LastMap
        /\ \A k \in 1..Len(last.output) : last.output[k] = 0

\* a successful unmap call has named a mapped object, with output to fill
C7_Witness ==
    /\ UnmapCalled /\ last.status = Success
    /\ \E h \in Named(last.input[1]) : last.pre_dma[h] \in DOMAIN last.pre_map
    /\ Len(last.output) > SizeofIoctlMapBuffer

(***************************************************************************)
(* Reading the last submit                                                 *)
(***************************************************************************)
SubmitCalled == last.op = "Submit"
\* the handle of command buffer descriptor i of a submit input
DescHandle(input, i) ==
    input[SizeofIoctlSubmit + (i - 1) * SizeofCommandBuffer + 1]
\* the object of descriptor i exists and its dma_map_addr lies in an entry
DescMapped(i) ==
    /\ GetObject(DescHandle(last.input, i))
    /\ \E k \in DOMAIN LastMap :
          Contains(LastMap[k], dma_map_addr[DescHandle(last.input, i)])
\* the index of the first descriptor whose handle does not resolve (0: none)
FirstBadDesc ==
    LET bad == {i \in 1..last.input[1] : ~GetObject(DescHandle(last.input, i))}
    IN IF bad = {} THEN 0 ELSE Min(bad)

(***************************************************************************)
(* C3: in submit, a descriptor whose handle resolves but whose object's    *)
(* dma_map_addr lies in no entry of the map makes submit return 0 with no  *)
(* read_block and no push_command_list for that descriptor.                *)
(***************************************************************************)
C3_SubmitUnmappedSkips ==
    (SubmitCalled /\ ~last.past_end) =>
        \A i \in 1..last.input[1] :
            (/\ \A j \in 1..(i - 1) : DescMapped(j)
             /\ GetObject(DescHandle(last.input, i))
             /\ ~DescMapped(i))
                => /\ last.returned
                   /\ last.status = 0
                   /\ CallsOf(i) = {}

(***************************************************************************)
(* C8: in submit, when descriptor k is the first whose handle does not     *)
(* resolve, submit returns -22: the lists of descriptors 1..k-1 have been  *)
(* pushed, nothing is read or pushed for k and later, and the output is    *)
(* not written.                                                            *)
(***************************************************************************)
C8_SubmitBadHandle ==
    (SubmitCalled /\ ~last.past_end /\ FirstBadDesc > 0) =>
        /\ last.returned
        /\ last.status = InvalidInput
        /\ \A j \in 1..(FirstBadDesc - 1) :
              {c.fn : c \in CallsOf(j)} = {"read_block", "push_command_list"}
        /\ \A j \in FirstBadDesc..last.input[1] : CallsOf(j) = {}
        /\ last.output = FreshOutput(Len(last.output))

(***************************************************************************)
(* C9: in map-buffer and unmap-buffer, when entry k is the first whose     *)
(* handle does not resolve, the call returns -22 and stops: entries after  *)
(* k cause no GPU call, no map change and no dma_map_addr change, and the  *)
(* effects of entries 1..k-1 stay.                                         *)
(***************************************************************************)
C9_BatchStopsAtBadHandle ==
    ((MapCalled \/ UnmapCalled) /\ FirstBadEntry > 0) =>
        LET k == FirstBadEntry
            before == Named(k - 1)
        IN /\ last.returned /\ last.status = InvalidInput
           /\ last.done = k - 1
           /\ \A c \in Range(last.calls) : c.idx < k
           /\ \A h \in Handles \ before : dma_map_addr[h] = last.pre_dma[h]
           /\ MapCalled =>
                /\ DOMAIN LastMap =
                      (DOMAIN last.pre_map) \cup ({dma_map_addr[h] : h \in before} \ {0})
                /\ \A a \in (DOMAIN last.pre_map) \ {dma_map_addr[h] : h \in before} :
                      LastMap[a] = last.pre_map[a]
                /\ \A h \in before :
                      /\ last.pre_dma[h] # 0 => dma_map_addr[h] = last.pre_dma[h]
                      /\ dma_map_addr[h] # 0 =>
                            LastMap[dma_map_addr[h]] =
                               BufferMap(dma_map_addr[h], ObjSize(h), ObjAddr(h),
                                         ObjAllocated(h))
                /\ Cardinality({c \in Range(last.calls) : c.fn = "allocate_32bit"})
                      >= Cardinality({h \in before : last.pre_dma[h] = 0})
           /\ UnmapCalled =>
                /\ \A h \in before : dma_map_addr[h] = 0
                /\ LastMap = Without(last.pre_map, {last.pre_dma[h] : h \in before})
                /\ {c.a : c \in Range(last.calls)}
                      = {last.pre_dma[h] : h \in before} \cap (DOMAIN last.pre_map)

\* a map or unmap call stopped at its second entry after the first changed
\* the map, or at its first entry before one that would have changed it
C9_Witness ==
    /\ MapCalled \/ UnmapCalled
    /\ last.input[1] = 2
    /\ \/ FirstBadEntry = 2 /\ LastMap # last.pre_map
       \/ /\ FirstBadEntry = 1
          /\ LET h == EntryHandle(last.input, 2)
             IN /\ GetObject(h)
                /\ MapCalled => last.pre_dma[h] = 0
                /\ UnmapCalled => last.pre_dma[h] \in DOMAIN last.pre_map

(***************************************************************************)
(* C10: submit with cmd_buffer_count = N and an input shorter than the     *)
(* header and N descriptors is rejected before any word past the end of    *)
(* the input is read and before any read_block or push_command_list.       *)
(***************************************************************************)
InputShort ==
    Len(last.input) < SizeofIoctlSubmit + last.input[1] * SizeofCommandBuffer

C10_SubmitShortInputRejected ==
    (SubmitCalled /\ InputShort) =>
        /\ ~last.past_end
        /\ last.calls = <<>>
        /\ last.returned /\ last.status # Success

(***************************************************************************)
(* C11: every submit that returns 0 has written to the output the header   *)
(* followed by the command-buffer, relocation, relocation-shift,           *)
(* syncpoint-increment and wait-check arrays as decoded from the input,    *)
(* and no fence: the output past those arrays is as the caller left it.    *)
(***************************************************************************)
\* the length of the header and the five arrays of the last submit input
WrittenBack ==
    SizeofIoctlSubmit + last.input[1] * SizeofCommandBuffer
        + last.input[2] * (SizeofReloc + SizeofRelocShift)
        + last.input[3] * (SizeofSyncptIncr + SizeofSyncptIncr)

C11_SubmitWritesBack ==
    (SubmitCalled /\ last.returned /\ last.status = Success) =>
        \E g \in GarbageWords :
            /\ \A k \in 1..WrittenBack : last.output[k] = Word(last.input, k, g)
            /\ \A k \in (WrittenBack + 1)..Len(last.output) :
                  last.output[k] = FreshOutput(Len(last.output))[k]

\* a submit that pushed a command list returned 0 on an input with a fence
C11_Witness ==
    /\ SubmitCalled /\ last.returned /\ last.status = Success
    /\ last.calls # <<>>
    /\ last.input[4] > 0 /\ Len(last.output) > WrittenBack

(***************************************************************************)
(* C12: get-syncpoint and get-waitbase return 0 with an output whose value *)
(* field is 0 and whose param field is the param of the input.             *)
(***************************************************************************)
C12_SyncpointStubs ==
    last.op \in {"GetSyncpoint", "GetWaitbase"} =>
        /\ last.returned /\ last.status = Success
        /\ Len(last.output) = SizeofIoctlGetSyncpoint
        /\ last.output[1] = last.input[1]
        /\ last.output[2] = 0

\* get-syncpoint has answered an input whose param and value are not 0
C12_Witness ==
    /\ last.op = "GetSyncpoint"
    /\ last.input[1] # 0 /\ last.input[2] # 0

(***************************************************************************)
(* C13: the status of every operation is 0 or -22; -12 is never returned,  *)
(* also when allocate_32bit fails during map-buffer; configure-memory-     *)
(* context and set-submit-timeout always return 0.                         *)
(***************************************************************************)
\* the last call is a map-buffer during which allocate_32bit returned 0
AllocationFailed ==
    /\ MapCalled
    /\ \E c \in Range(last.calls) : c.fn = "allocate_32bit" /\ c.a = 0

C13_StatusCodes ==
    (last.op # "none" /\ last.returned) =>
        /\ last.status \in {Success, InvalidInput}
        /\ last.status # OutOfMemory
        /\ last.op \in {"SetNVMAPfd", "SetSubmitTimeout"} => last.status = Success
        /\ (AllocationFailed /\ FirstBadEntry = 0) => last.status = Success

\* a map-buffer call during which allocate_32bit returned 0 has returned
C13_Witness ==
    AllocationFailed /\ last.returned /\ FirstBadEntry = 0

(***************************************************************************)
(* C14: a submit of N descriptors whose handles all resolve to objects     *)
(* with a mapping containing their dma_map_addr issues exactly N           *)
(* read_block and N push_command_list calls, alternating, in descriptor    *)
(* order: the i-th read is at mapping.start + offset_i for word_count_i    *)
(* words and the list pushed is the words read; no descriptor is read or   *)
(* pushed twice.                                                           *)
(***************************************************************************)
\* the start of the mapping that contains the dma_map_addr of descriptor i
DescStart(i) ==
    LET a == dma_map_addr[DescHandle(last.input, i)]
    IN LastMap[CHOOSE k \in DOMAIN LastMap : Contains(LastMap[k], a)].start_addr
\* fields 2 and 3 of descriptor i of the last submit input
DescOffset(i) == last.input[SizeofIoctlSubmit + (i - 1) * SizeofCommandBuffer + 2]
DescWordCount(i) == last.input[SizeofIoctlSubmit + (i - 1) * SizeofCommandBuffer + 3]

C14_SubmitReadsAndPushes ==
    (/\ SubmitCalled /\ ~last.past_end
     /\ \A i \in 1..last.input[1] : DescMapped(i)) =>
        /\ last.returned
        /\ Len(last.calls) = 2 * last.input[1]
        /\ \A i \in 1..last.input[1] :
              LET addr == DescStart(i) + DescOffset(i)
              IN /\ last.calls[2 * i - 1] =
                        Call(i, "read_block", addr, DescWordCount(i), <<>>)
                 /\ last.calls[2 * i] =
                        Call(i, "push_command_list", addr, DescWordCount(i),
                             ReadBlock(addr, DescWordCount(i)))

\* a submit of two descriptors with mapped objects and non-zero offsets or
\* word counts has returned
C14_Witness ==
    /\ SubmitCalled /\ ~last.past_end /\ last.returned
    /\ last.input[1] = 2
    /\ \A i \in 1..2 : DescMapped(i)
    /\ \E i \in 1..2 : DescOffset(i) # 0

(***************************************************************************)
(* C15: in map-buffer, when allocate_32bit returns 0 for an entry, nothing *)
(* is added to the map for it, its reported map_address is left as in the  *)
(* input and the object's dma_map_addr stays 0; the loop goes on, the      *)
(* following entries are mapped as usual, and the call returns 0 with the  *)
(* header and the whole entry array written.                               *)
(***************************************************************************)
\* the entries of the last map-buffer call for which allocate_32bit returned
\* 0, and the addresses allocate_32bit handed out during the call
FailedEntries ==
    {c.idx : c \in {d \in Range(last.calls) : d.fn = "allocate_32bit" /\ d.a = 0}}
Allocated ==
    {c.a : c \in {d \in Range(last.calls) : d.fn = "allocate_32bit" /\ d.a # 0}}
\* the number of entries the loop of the last map-buffer call has to handle
EntriesToDo == IF FirstBadEntry = 0 THEN last.input[1] ELSE FirstBadEntry - 1

C15_AllocationFailureSkipped ==
    (MapCalled /\ FailedEntries # {}) =>
        /\ last.returned
        /\ DOMAIN LastMap = (DOMAIN last.pre_map) \cup Allocated
        /\ last.done = EntriesToDo
        /\ FirstBadEntry = 0 =>
              /\ last.status = Success
              /\ Len(last.output) = Len(last.input)
              /\ last.output[1] = last.input[1]
        /\ \A i \in FailedEntries :
              LET h == EntryHandle(last.input, i)
              IN /\ (\A c \in Range(last.calls) :
                        (c.idx > i /\ EntryHandle(last.input, c.idx) = h) => c.a = 0)
                    => dma_map_addr[h] = 0
                 /\ FirstBadEntry = 0 =>
                       /\ EntryHandle(last.output, i) = h
                       /\ EntryAddress(last.output, i) = EntryAddress(last.input, i)
                 /\ \A j \in (i + 1)..EntriesToDo :
                       LET hj == EntryHandle(last.input, j)
                       IN /\ AddressBefore(j) = 0 => CallsOf(j) # {}
                          /\ AddressBefore(j) # 0 => dma_map_addr[hj] = AddressBefore(j)
                          /\ j \notin FailedEntries =>
                                /\ dma_map_addr[hj] # 0
                                /\ AddressBefore(j) = 0 =>
                                      \A c \in CallsOf(j) : c.a = dma_map_addr[hj]
                                /\ LastMap[dma_map_addr[hj]] =
                                      BufferMap(dma_map_addr[hj], ObjSize(hj),
                                                ObjAddr(hj), ObjAllocated(hj))
                                /\ FirstBadEntry = 0 =>
                                      EntryAddress(last.output, j) = dma_map_addr[hj]

\* in a map-buffer call that returned 0 the allocation for the first entry
\* failed and the one for the second entry succeeded
C15_Witness ==
    /\ MapCalled /\ last.status = Success
    /\ 1 \in FailedEntries
    /\ \E c \in Range(last.calls) : c.idx = 2 /\ c.a # 0

(***************************************************************************)
(* C16: in every state that map-buffer and unmap-buffer reach,             *)
(* FindBufferMap(address) gives what the reference lookup gives: the one   *)
(* entry with the greatest key <= address, reported if its range contains  *)
(* address, and "not found" otherwise.                                     *)
(***************************************************************************)
\* the reference lookup of the claim
ReferenceLookup(m, a) ==
    LET le == {k \in DOMAIN m : k <= a}
        k == CHOOSE x \in le : \A y \in le : y <= x
    IN IF le # {} /\ Contains(m[k], a)
       THEN [kind |-> "value", map |-> m[k]]
       ELSE [kind |-> "none", map |-> BufferMap(0, 0, 0, FALSE)]

C16_FindIsReferenceLookup ==
    \A s \in sessions : \A a \in 0..(MaxAddr + 1) :
        \A r \in FindBufferMap(buffer_mappings[s], a) :
            /\ r.kind = ReferenceLookup(buffer_mappings[s], a).kind
            /\ r.kind = "value" => r.map = ReferenceLookup(buffer_mappings[s], a).map

\* the part of C16 about addresses that lie in an entry
C16_FoundPart ==
    \A s \in sessions : \A a \in 0..(MaxAddr + 1) :
        ReferenceLookup(buffer_mappings[s], a).kind = "value" =>
            FindBufferMap(buffer_mappings[s], a) = {ReferenceLookup(buffer_mappings[s], a)}

(***************************************************************************)
(* C17: in one session, with an allocator that hands out ranges that do    *)
(* not overlap, the ranges [start, start + size) of the live entries are   *)
(* pairwise non-overlapping and no key is held by more than one entry.     *)
(***************************************************************************)
\* the addresses of the range of a BufferMap
RangeOf(bm) == StartAddr(bm)..(EndAddr(bm) - 1)

C17_RangesDisjoint ==
    \A s \in sessions :
        LET m == buffer_mappings[s]
        IN /\ \A k \in DOMAIN m : StartAddr(m[k]) = k
           /\ \A k1 \in DOMAIN m : \A k2 \in DOMAIN m :
                 k1 # k2 => RangeOf(m[k1]) \cap RangeOf(m[k2]) = {}
           /\ Cardinality({StartAddr(m[k]) : k \in DOMAIN m}) = Cardinality(DOMAIN m)

\* a map-buffer call has allocated a range next to another live entry, one of
\* the two longer than one address
C17_Witness ==
    /\ MapCalled
    /\ Cardinality(DOMAIN LastMap) >= 2
    /\ Allocated # {}
    /\ \E k \in DOMAIN LastMap : LastMap[k].size > 1

(***************************************************************************)
(* C18: in one session that is the only writer of dma_map_addr, the keys   *)
(* of the map are the non-zero dma_map_addr values of the objects: no key  *)
(* is 0, every entry starts at its key, every object with a non-zero       *)
(* dma_map_addr has an entry at that key, and every entry belongs to such  *)
(* an object.                                                              *)
(***************************************************************************)
\* the entry MapBuffer inserts for object h mapped at address a
EntryOf(h, a) == BufferMap(a, ObjSize(h), ObjAddr(h), ObjAllocated(h))

C18_KeysAreAddresses ==
    \A s \in sessions :
        LET m == buffer_mappings[s]
        IN /\ DOMAIN m = {dma_map_addr[h] : h \in Handles} \ {0}
           /\ 0 \notin DOMAIN m
           /\ \A k \in DOMAIN m :
                 /\ StartAddr(m[k]) = k
                 /\ \E h \in Handles : dma_map_addr[h] = k /\ m[k] = EntryOf(h, k)
           /\ \A h \in Handles :
                 dma_map_addr[h] # 0 =>
                    /\ dma_map_addr[h] \in DOMAIN m
                    /\ m[dma_map_addr[h]] = EntryOf(h, dma_map_addr[h])

\* an unmap-buffer call has taken one object's entry away and left another
C18_Witness ==
    /\ UnmapCalled
    /\ DOMAIN LastMap # {}
    /\ DOMAIN LastMap # DOMAIN last.pre_map
    /\ \E h \in Handles : dma_map_addr[h] = 0 /\ last.pre_dma[h] # 0

(***************************************************************************)
(* C19: configure-memory-context, submit, get-syncpoint, get-waitbase and  *)
(* set-submit-timeout leave the map and every dma_map_addr unchanged and   *)
(* issue no allocate_32bit or unmap call; only map-buffer and unmap-buffer *)
(* change them, and only configure-memory-context changes nvmap_fd.        *)
(***************************************************************************)
C19_FrameStep ==
    /\ last'.op \in {"SetNVMAPfd", "Submit", "GetSyncpoint", "GetWaitbase",
                     "SetSubmitTimeout"} =>
          /\ buffer_mappings' = buffer_mappings
          /\ dma_map_addr' = dma_map_addr
          /\ gpu' = gpu
          /\ \A c \in Range(last'.calls) : c.fn \notin {"allocate_32bit", "unmap"}
    /\ (buffer_mappings' # buffer_mappings \/ dma_map_addr' # dma_map_addr)
          => last'.op \in {"MapBuffer", "UnmapBuffer"}
    /\ nvmap_fd' # nvmap_fd => last'.op = "SetNVMAPfd"

C19_Frame == [][C19_FrameStep]_vars

\* a submit has pushed a command list in a session with a configured
\* nvmap_fd and a non-empty map
C19_Witness ==
    /\ SubmitCalled /\ last.calls # <<>>
    /\ nvmap_fd[last.s] # 0
    /\ DOMAIN LastMap # {}

(***************************************************************************)
(* C20: with two sessions on one nvmap and one GPU whose map-buffer and    *)
(* unmap-buffer calls interleave on the same objects, every entry of       *)
(* either session's map refers to a range still mapped in the GPU and its  *)
(* key is the current dma_map_addr of its object; an unmap-buffer in one   *)
(* session leaves no stale entry in the other session's map.               *)
(***************************************************************************)
C20_NoStaleEntryAcrossSessions ==
    \A s \in sessions :
        \A k \in DOMAIN buffer_mappings[s] :
            /\ RangeOf(buffer_mappings[s][k]) \subseteq gpu
            /\ \E h \in Handles :
                  dma_map_addr[h] = k /\ buffer_mappings[s][k] = EntryOf(h, k)

====
